---- MODULE Spec2Model ----
(***************************************************************************)
(* A model of explore_TLE_data.py: the CelesTrak response is grouped into  *)
(* TLE sets (get_celestrak_data), every set is decoded column by column    *)
(* into a row of orbital elements with its derived quantities              *)
(* (tle_to_dataframe), and a state vector is propagated for every row      *)
(* (add_state_vectors), in the order main() calls them.                    *)
(*                                                                         *)
(* Text is modelled character by character: a line is a sequence of        *)
(* one-character strings, and Python's slices, int() and float() are       *)
(* operators over such sequences.  A Python float read from a TLE field is *)
(* kept as the exact decimal it was written as (sign, integer part,        *)
(* fraction digits); arithmetic on it is fixed point, in the units named   *)
(* beside each operator.                                                   *)
(***************************************************************************)
EXTENDS Integers, Sequences, FiniteSets, TLC

VARIABLES
    blocks,      \* the TLE records the remote catalogue serves (the input)
    shape,       \* lines per block in the response text: 2 (no name line) or 3
    caller,      \* "main": main()'s call order; "with_lines": a caller that
                 \* gives add_state_vectors the line1/line2 columns it reads
    pc,          \* position in the pipeline
    tle_sets,    \* get_celestrak_data's result
    i,           \* tle_to_dataframe's loop position in tle_sets (1-based)
    data,        \* tle_to_dataframe's list of row dictionaries
    src,         \* for every row of data, the index of the set it was read from
    df,          \* the DataFrame (a sequence of rows); NoFrame before it exists
    j,           \* add_state_vectors' loop position in df (1-based)
    positions,   \* add_state_vectors' list of positions
    velocities,  \* add_state_vectors' list of velocities
    targets,     \* the time arguments of every satellite.propagate call
    sat_error,   \* the error state sgp4 left in each row's satellite object
    exc          \* the exception that ended the run, if any

vars == <<blocks, shape, caller, pc, tle_sets, i, data, src, df, j,
          positions, velocities, targets, sat_error, exc>>

(***************************************************************************)
(* Bounds of the model.                                                    *)
(***************************************************************************)
MaxBlocks == 2

(***************************************************************************)
(* Characters, slices and Python's number parsing.                         *)
(***************************************************************************)
DigitChars == <<"0", "1", "2", "3", "4", "5", "6", "7", "8", "9">>

IsDigit(c) == \E k \in 1..10 : DigitChars[k] = c

DigitVal(c) == (CHOOSE k \in 1..10 : DigitChars[k] = c) - 1

Min(a, b) == IF a < b THEN a ELSE b

\* Python's s[lo:hi] (0-based, hi exclusive, cut at the end of s).
Slice(s, lo, hi) == SubSeq(s, lo + 1, Min(hi, Len(s)))

RECURSIVE LStrip(_)
LStrip(s) == IF s # <<>> /\ Head(s) = " " THEN LStrip(Tail(s)) ELSE s

RECURSIVE RStrip(_)
RStrip(s) ==
    IF s # <<>> /\ s[Len(s)] = " " THEN RStrip(SubSeq(s, 1, Len(s) - 1)) ELSE s

\* str.strip() over the model's alphabet, whose only whitespace is the space.
Strip(s) == RStrip(LStrip(s))

AllDigits(s) == \A k \in 1..Len(s) : IsDigit(s[k])

RECURSIVE DigitsVal(_)
DigitsVal(s) ==
    IF s = <<>> THEN 0
    ELSE DigitsVal(SubSeq(s, 1, Len(s) - 1)) * 10 + DigitVal(s[Len(s)])

HasSign(s) == s # <<>> /\ Head(s) \in {"+", "-"}

Unsigned(s) == IF HasSign(s) THEN Tail(s) ELSE s

\* int(str): surrounding blanks, an optional sign, at least one digit;
\* anything else is a ValueError (ok = FALSE).
int(str) ==
    LET t == Strip(str)
        u == Unsigned(t)
    IN  IF u # <<>> /\ AllDigits(u)
        THEN [ok |-> TRUE,
              val |-> IF Head(t) = "-" THEN 0 - DigitsVal(u) ELSE DigitsVal(u)]
        ELSE [ok |-> FALSE, val |-> 0]

DotAt(u) == IF \E k \in 1..Len(u) : u[k] = "."
            THEN CHOOSE k \in 1..Len(u) :
                     u[k] = "." /\ \A m \in 1..(k - 1) : u[m] # "."
            ELSE 0

\* float(str) for plain decimal text: surrounding blanks, an optional sign,
\* digits with at most one point and at least one digit.  The value is kept
\* exactly: neg, ip (the integer part) and fd (the fraction's digits).
\* Exponents, "inf", "nan" and "_" are outside the model's alphabet.
float(str) ==
    LET t  == Strip(str)
        u  == Unsigned(t)
        p  == DotAt(u)
        ipart == IF p = 0 THEN u ELSE SubSeq(u, 1, p - 1)
        fpart == IF p = 0 THEN <<>> ELSE SubSeq(u, p + 1, Len(u))
    IN  IF AllDigits(ipart) /\ AllDigits(fpart) /\ Len(ipart) + Len(fpart) > 0
        THEN [ok |-> TRUE, neg |-> (t # <<>> /\ Head(t) = "-"),
              ip |-> DigitsVal(ipart), fd |-> fpart]
        ELSE [ok |-> FALSE, neg |-> FALSE, ip |-> 0, fd |-> <<>>]

RECURSIVE Pow10(_)
Pow10(k) == IF k = 0 THEN 1 ELSE 10 * Pow10(k - 1)

\* The fraction of a parsed float in units of 10^-w (digits past w are cut).
FracUnits(x, w) ==
    IF Len(x.fd) >= w THEN DigitsVal(SubSeq(x.fd, 1, w))
    ELSE DigitsVal(x.fd) * Pow10(w - Len(x.fd))

IsZero(x) == x.ip = 0 /\ FracUnits(x, Len(x.fd)) = 0

IsPositive(x) == ~x.neg /\ ~IsZero(x)

(***************************************************************************)
(* datetime and timedelta, as far as line 109 uses them.                   *)
(***************************************************************************)
IsLeap(y) == (y % 4 = 0 /\ y % 100 # 0) \/ y % 400 = 0

DaysInYear(y) == IF IsLeap(y) THEN 366 ELSE 365

DaysInMonth(y, m) ==
    IF m = 2 THEN (IF IsLeap(y) THEN 29 ELSE 28)
    ELSE IF m \in {4, 6, 9, 11} THEN 30 ELSE 31

\* The year and the 0-based day of that year, k days after January 1 of y.
RECURSIVE YearAndDay(_, _)
YearAndDay(y, k) ==
    IF k < 0 THEN YearAndDay(y - 1, k + DaysInYear(y - 1))
    ELSE IF k >= DaysInYear(y) THEN YearAndDay(y + 1, k - DaysInYear(y))
    ELSE [year |-> y, yday |-> k]

\* The month and day of the 0-based day k of year y, counting from month m.
RECURSIVE MonthAndDay(_, _, _)
MonthAndDay(y, m, k) ==
    IF k < DaysInMonth(y, m) THEN [month |-> m, day |-> k + 1]
    ELSE MonthAndDay(y, m + 1, k - DaysInMonth(y, m))

\* The floor and the fraction (in 10^-8 day) of a parsed day of year.
DayWhole(x) ==
    IF ~x.neg THEN x.ip
    ELSE IF FracUnits(x, 8) = 0 THEN 0 - x.ip ELSE 0 - x.ip - 1

DayFrac(x) ==
    IF ~x.neg \/ FracUnits(x, 8) = 0 THEN FracUnits(x, 8)
    ELSE Pow10(8) - FracUnits(x, 8)

\* timedelta(days=float(day) - 1), normalised as Python keeps it: days,
\* seconds, microseconds.  10^-8 day is 864 microseconds, so a TLE day of
\* year is a whole number of microseconds and the float's rounding error
\* (under 10^-8 s) never changes the microsecond timedelta rounds to.
\* 31250 * 864 microseconds are 27 seconds.
timedelta(day) ==
    LET q == DayFrac(day) \div 31250
        r == DayFrac(day) % 31250
    IN  [days         |-> DayWhole(day) - 1,
         seconds      |-> q * 27 + (r * 864) \div 1000000,
         microseconds |-> (r * 864) % 1000000]

\* datetime(year, 1, 1) + delta
datetime_plus(year, delta) ==
    LET yd == YearAndDay(year, delta.days)
        md == MonthAndDay(yd.year, 1, yd.yday)
    IN  [year |-> yd.year, month |-> md.month, day |-> md.day,
         hour        |-> delta.seconds \div 3600,
         minute      |-> (delta.seconds % 3600) \div 60,
         second      |-> delta.seconds % 60,
         microsecond |-> delta.microseconds]

\* Lines 102-106: the two-digit year's century.
ResolveYearPivot60(year) == IF year < 60 THEN year + 2000 ELSE year + 1900

ResolveYear(year) == IF year < 57 THEN year + 2000 ELSE year + 1900

\* Lines 98-109.
Epoch(year, day) == datetime_plus(ResolveYear(year), timedelta(day))

(***************************************************************************)
(* Lines 126-135: the derived elements.  Fixed point: the mean motion      *)
(* enters as whole revolutions per day (the model's mean motions are 0 or  *)
(* at least 1 in size), lengths are km, the semi-major axis is quantised   *)
(* to 100 km, the eccentricity is in units of 10^-7.                       *)
(***************************************************************************)
\* 398600.4418 / (2 pi / 86400)^2 = 7.5371216e13 km^3 (rev/day)^2, in units
\* of (100 km)^3: the constant of line 128 with line 127's factor folded in.
MuRevDay == 75371216

EarthRadius == 6378

EccUnit == 10000000

\* n of line 127, in rev/day instead of rad/s (truncated toward zero).
MeanMotionN(mm) == IF mm.neg THEN 0 - mm.ip ELSE mm.ip

CubeRoot(q) == CHOOSE r \in 0..1000 : r * r * r <= q /\ q < (r + 1) * (r + 1) * (r + 1)

\* a of line 128, in km.  n * n = 0 raises ZeroDivisionError (see tle_row).
SemiMajorAxis(n) == 100 * CubeRoot(MuRevDay \div (n * n))

\* a * f / EccUnit rounded down, for a factor f in units of 10^-7, without
\* leaving 32 bits.
Times(a, f) == (a * (f \div 10000) + (a * (f % 10000)) \div 10000) \div 1000

\* The eccentricity of a parsed float in units of 10^-7.
EccOf(e) == e.ip * EccUnit + FracUnits(e, 7)

DerivedSwapped(mm, e) ==
    LET a == SemiMajorAxis(MeanMotionN(mm))
    IN  [semi_major_axis |-> a,
         period_minutes  |-> 1440 \div MeanMotionN(mm),
         apogee          |-> Times(a, EccUnit - EccOf(e)) - EarthRadius,
         perigee         |-> Times(a, EccUnit + EccOf(e)) - EarthRadius]

\* Lines 127-135.
Derived(mm, e) ==
    LET a == SemiMajorAxis(MeanMotionN(mm))
    IN  [semi_major_axis |-> a,
         period_minutes  |-> 1440 \div MeanMotionN(mm),
         apogee          |-> Times(a, EccUnit + EccOf(e)) - EarthRadius,
         perigee         |-> Times(a, EccUnit - EccOf(e)) - EarthRadius]

(***************************************************************************)
(* The body of tle_to_dataframe's loop (lines 93-137) for one TLE set, and *)
(* parse_tle (lines 59-79).  Both return exc = "" and the row, or the      *)
(* exception the first failing statement raises.                           *)
(***************************************************************************)
Raise(kind) == [exc |-> kind, row |-> <<>>]

tle_row(tle_set) ==
    LET name  == Strip(tle_set[1])
        line1 == tle_set[2]
        line2 == tle_set[3]
        year  == int(Slice(line1, 18, 20))
        day   == float(Slice(line1, 20, 32))
        catalog_number == int(Slice(line1, 2, 7))
        inclination    == float(Slice(line2, 8, 16))
        raan           == float(Slice(line2, 17, 25))
        eccentricity   == float(<<"0", ".">> \o Slice(line2, 26, 33))
        arg_perigee    == float(Slice(line2, 34, 42))
        mean_anomaly   == float(Slice(line2, 43, 51))
        mean_motion    == float(Slice(line2, 52, 63))
        rev_number     == float(Slice(line1, 63, 68))
        n == MeanMotionN(mean_motion)
    IN  IF Len(tle_set) < 3 THEN Raise("IndexError")
        ELSE IF ~(year.ok /\ day.ok /\ catalog_number.ok /\ inclination.ok
                  /\ raan.ok /\ eccentricity.ok /\ arg_perigee.ok
                  /\ mean_anomaly.ok /\ mean_motion.ok /\ rev_number.ok)
        THEN Raise("ValueError")
        ELSE IF n * n = 0 THEN Raise("ZeroDivisionError")
        ELSE [exc |-> "",
              row |-> [name |-> name,
                       epoch |-> Epoch(year.val, day),
                       catalog_number |-> catalog_number.val,
                       classification |-> Slice(line1, 7, 8),
                       inclination  |-> inclination,
                       raan         |-> raan,
                       eccentricity |-> eccentricity,
                       arg_perigee  |-> arg_perigee,
                       mean_anomaly |-> mean_anomaly,
                       mean_motion  |-> mean_motion,
                       rev_number   |-> rev_number]
                      @@ Derived(mean_motion, eccentricity)]

parse_tle(line1, line2) ==
    LET inclination  == float(Slice(line2, 8, 16))
        raan         == float(Slice(line2, 17, 25))
        eccentricity == float(<<"0", ".">> \o Slice(line2, 26, 33))
        arg_perigee  == float(Slice(line2, 34, 42))
        mean_anomaly == float(Slice(line2, 43, 51))
        mean_motion  == float(Slice(line2, 52, 63))
    IN  IF ~(inclination.ok /\ raan.ok /\ eccentricity.ok /\ arg_perigee.ok
             /\ mean_anomaly.ok /\ mean_motion.ok)
        THEN Raise("ValueError")
        ELSE [exc |-> "",
              row |-> [epoch |-> Slice(line1, 18, 32),
                       inclination  |-> inclination,
                       raan         |-> raan,
                       eccentricity |-> eccentricity,
                       arg_perigee  |-> arg_perigee,
                       mean_anomaly |-> mean_anomaly,
                       mean_motion  |-> mean_motion]]

(***************************************************************************)
(* The input: TLE records as the catalogue writes them.  A record is       *)
(* written into the fixed columns of the format; `defect` names what is    *)
(* wrong with the text of a record, "none" for a well-formed one.          *)
(***************************************************************************)
RECURSIVE D(_, _)
D(v, w) == IF w = 0 THEN <<>>
           ELSE D(v \div 10, w - 1) \o <<DigitChars[(v % 10) + 1]>>

Defects == {"non_numeric", "line1_68_chars", "line2_17_chars",
            "catalog_mismatch", "zero_mean_motion", "negative_mean_motion"}

ISS == [name |-> <<"I", "S", "S", " ", " ">>, cat |-> 25544, yy |-> 8,
        doy |-> 264, frac |-> 51782528, ecc |-> 6703,
        mm_ip |-> 15, mm_frac |-> 72125391, defect |-> "none"]

MOLNIYA == [name |-> <<"M", "O", "L">>, cat |-> 8195, yy |-> 99,
            doy |-> 365, frac |-> 0, ecc |-> 7318036,
            mm_ip |-> 2, mm_frac |-> 611236, defect |-> "none"]

BlockSpecs == {ISS, MOLNIYA} \cup {[ISS EXCEPT !.defect = d] : d \in Defects}

WellFormed(b) == b.defect = "none"

Line1Of(b) ==
    LET full ==
        <<"1", " ">> \o D(b.cat, 5) \o <<"U", " ">>
        \o <<"9", "8", "0", "6", "7", "A", " ", " ">> \o <<" ">>
        \o D(b.yy, 2) \o D(b.doy, 3) \o <<".">> \o D(b.frac, 8) \o <<" ">>
        \o <<"-", ".", "0", "0", "0", "0", "2", "1", "8", "2">> \o <<" ">>
        \o <<" ", "0", "0", "0", "0", "0", "-", "0">> \o <<" ">>
        \o <<"-", "1", "1", "6", "0", "6", "-", "4">> \o <<" ", "0", " ">>
        \o <<" ", "2", "9", "2">> \o <<"7">>
    IN  IF b.defect = "line1_68_chars" THEN SubSeq(full, 1, 68) ELSE full

Line2Of(b) ==
    LET cat2 == IF b.defect = "catalog_mismatch" THEN b.cat + 1 ELSE b.cat
        inc  == IF b.defect = "non_numeric"
                THEN <<" ", "5", "1", ".", "6", "4", "X", "6">>
                ELSE <<" ", "5", "1", ".", "6", "4", "1", "6">>
        mm   == IF b.defect = "zero_mean_motion"
                THEN D(0, 2) \o <<".">> \o D(0, 8)
                ELSE IF b.defect = "negative_mean_motion"
                THEN <<"-">> \o D(b.mm_ip, 2) \o <<".">> \o D(b.mm_frac \div 10, 7)
                ELSE D(b.mm_ip, 2) \o <<".">> \o D(b.mm_frac, 8)
        full ==
        <<"2", " ">> \o D(cat2, 5) \o <<" ">> \o inc \o <<" ">>
        \o <<"2", "4", "7", ".", "4", "6", "2", "7">> \o <<" ">>
        \o D(b.ecc, 7) \o <<" ">>
        \o <<"1", "3", "0", ".", "5", "3", "6", "0">> \o <<" ">>
        \o <<"3", "2", "5", ".", "0", "2", "8", "8">> \o <<" ">>
        \o mm \o <<"5", "6", "3", "5", "3">> \o <<"7">>
    IN  IF b.defect = "line2_17_chars" THEN SubSeq(full, 1, 17) ELSE full

\* The lines of one block in the response text.
BlockLines(b, sh) ==
    IF sh = 3 THEN <<b.name, Line1Of(b), Line2Of(b)>>
    ELSE <<Line1Of(b), Line2Of(b)>>

RECURSIVE Concat(_, _)
Concat(bs, sh) ==
    IF bs = <<>> THEN <<>> ELSE BlockLines(Head(bs), sh) \o Concat(Tail(bs), sh)

\* Line 45: response.text.strip().split('\n')
ResponseLines == Concat(blocks, shape)

\* Line 51: [tle_data[i:i+3] for i in range(0, len(tle_data), 3)]
GroupByThree(tle_data) ==
    [k \in 1..((Len(tle_data) + 2) \div 3) |->
        Slice(tle_data, 3 * (k - 1), 3 * (k - 1) + 3)]

(***************************************************************************)
(* The pipeline.                                                           *)
(***************************************************************************)
\* No DataFrame.  A DataFrame the pipeline builds always has a row.
NoFrame == <<>>

NoException == [kind |-> "", where |-> ""]

\* What sgp4 can do with one row (the library is outside the repository):
\* twoline2rv raises ValueError, or builds the satellite and propagate
\* returns a state vector (error 0) or (None, None, None) for both vectors
\* with the reason left in satellite.error.
Outcomes == {"ok", "decayed", "numeric_degenerate", "twoline2rv_raises"}

Vector == <<"x", "y", "z">>

NoneVector == <<"None", "None", "None">>

InputSequences == UNION {[1..len -> BlockSpecs] : len \in 1..MaxBlocks}

Init ==
    /\ blocks \in InputSequences
    /\ shape \in {2, 3}
    /\ caller \in {"main", "with_lines"}
    /\ pc = "fetch"
    /\ tle_sets = <<>>
    /\ i = 1
    /\ data = <<>>
    /\ src = <<>>
    /\ df = NoFrame
    /\ j = 1
    /\ positions = <<>>
    /\ velocities = <<>>
    /\ targets = <<>>
    /\ sat_error = <<>>
    /\ exc = NoException

\* Lines 36-53 and 152-155: the request succeeds and the lines are grouped.
GetCelestrakData ==
    /\ pc = "fetch"
    /\ tle_sets' = GroupByThree(ResponseLines)
    /\ pc' = "parse"
    /\ UNCHANGED <<blocks, shape, caller, i, data, src, df, j, positions,
                   velocities, targets, sat_error, exc>>

\* Lines 55-57, 154-155 and 205-206: the request fails, get_celestrak_data
\* and get_satellite_dataframe return None, and add_state_vectors(None)
\* raises on None.iterrows.
GetCelestrakDataFails ==
    /\ pc = "fetch"
    /\ pc' = "raised"
    /\ exc' = [kind |-> "AttributeError", where |-> "add_state_vectors"]
    /\ UNCHANGED <<blocks, shape, caller, tle_sets, i, data, src, df, j,
                   positions, velocities, targets, sat_error>>

\* Lines 93-137: one pass of tle_to_dataframe's loop.  Nothing catches an
\* exception of the loop body: it ends tle_to_dataframe and its callers.
ParseBlock ==
    /\ pc = "parse"
    /\ i <= Len(tle_sets)
    /\ LET r == tle_row(tle_sets[i])
       IN  IF r.exc # ""
           THEN /\ pc' = "raised"
                /\ exc' = [kind |-> r.exc, where |-> "tle_to_dataframe"]
                /\ UNCHANGED <<i, data, src>>
           ELSE /\ data' = Append(data, r.row)
                /\ src' = Append(src, i)
                /\ i' = i + 1
                /\ UNCHANGED <<pc, exc>>
    /\ UNCHANGED <<blocks, shape, caller, tle_sets, df, j, positions,
                   velocities, targets, sat_error>>

\* Lines 139-145 and 158-160: the rows become the DataFrame, indexed by
\* epoch, and it is returned.
BuildFrame ==
    /\ pc = "parse"
    /\ i > Len(tle_sets)
    /\ df' = data
    /\ pc' = IF caller = "main" THEN "states" ELSE "attach"
    /\ UNCHANGED <<blocks, shape, caller, tle_sets, i, data, src, j,
                   positions, velocities, targets, sat_error, exc>>

\* A caller other than main() adds the columns add_state_vectors reads
\* (row['line1'], row['line2'] of line 172) before it calls it.
AttachLines ==
    /\ pc = "attach"
    /\ df' = [k \in 1..Len(df) |->
                 df[k] @@ [line1 |-> tle_sets[src[k]][2],
                           line2 |-> tle_sets[src[k]][3]]]
    /\ pc' = "states"
    /\ UNCHANGED <<blocks, shape, caller, tle_sets, i, data, src, j,
                   positions, velocities, targets, sat_error, exc>>

\* Lines 175-182: the arguments of satellite.propagate, read from the index.
PropagateArgs(idx) ==
    [year |-> idx.year, month |-> idx.month, day |-> idx.day,
     hour |-> idx.hour, minute |-> idx.minute, second |-> idx.second]

\* Lines 170-185: one pass of add_state_vectors' loop.
PropagateRow ==
    /\ pc = "states"
    /\ j <= Len(df)
    /\ IF "line1" \notin DOMAIN df[j] \/ "line2" \notin DOMAIN df[j]
       THEN /\ pc' = "raised"
            /\ exc' = [kind |-> "KeyError", where |-> "add_state_vectors"]
            /\ UNCHANGED <<j, positions, velocities, targets, sat_error>>
       ELSE \E outcome \in Outcomes :
            IF outcome = "twoline2rv_raises"
            THEN /\ pc' = "raised"
                 /\ exc' = [kind |-> "ValueError",
                            where |-> "add_state_vectors"]
                 /\ UNCHANGED <<j, positions, velocities, targets, sat_error>>
            ELSE /\ targets' = Append(targets, PropagateArgs(df[j].epoch))
                 /\ sat_error' = Append(sat_error, outcome)
                 /\ positions' = Append(positions,
                        IF outcome = "ok" THEN Vector ELSE NoneVector)
                 /\ velocities' = Append(velocities,
                        IF outcome = "ok" THEN Vector ELSE NoneVector)
                 /\ j' = j + 1
                 /\ UNCHANGED <<pc, exc>>
    /\ UNCHANGED <<blocks, shape, caller, tle_sets, i, data, src, df>>

\* Lines 187-191: the vectors become six columns and df is returned.
AssignColumns ==
    /\ pc = "states"
    /\ j > Len(df)
    /\ df' = [k \in 1..Len(df) |->
                 df[k] @@ [position_x |-> positions[k][1],
                           position_y |-> positions[k][2],
                           position_z |-> positions[k][3],
                           velocity_x |-> velocities[k][1],
                           velocity_y |-> velocities[k][2],
                           velocity_z |-> velocities[k][3]]]
    /\ pc' = "done"
    /\ UNCHANGED <<blocks, shape, caller, tle_sets, i, data, src, j,
                   positions, velocities, targets, sat_error, exc>>

\* main() (lines 193-217): get_satellite_dataframe, then add_state_vectors on
\* its result.  What follows line 206 only prints, and the last `if` of the
\* file has no body; it is left out.
Next ==
    \/ GetCelestrakData
    \/ GetCelestrakDataFails
    \/ ParseBlock
    \/ BuildFrame
    \/ AttachLines
    \/ PropagateRow
    \/ AssignColumns

Spec == Init /\ [][Next]_vars

(***************************************************************************)
(* tle_to_dataframe alone, applied to one well-formed TLE set whose epoch  *)
(* or whose elements sweep the cases of the format.                        *)
(***************************************************************************)
TwoDigitYears == 0..99

DayCases == {<<0, 0>>, <<1, 0>>, <<1, 1>>, <<60, 50000000>>,
             <<264, 51782528>>, <<365, 99999999>>, <<366, 0>>}

EccCases == {0, 1, 6703, 5000000, 9999999}

MeanMotionCases == {1, 2, 8, 15, 16, 17}

EpochSweep ==
    {[ISS EXCEPT !.yy = y, !.doy = d[1], !.frac = d[2]] :
        y \in TwoDigitYears, d \in DayCases}

ElementSweep ==
    {[ISS EXCEPT !.ecc = e, !.mm_ip = m] :
        e \in EccCases, m \in MeanMotionCases}

InitRecord ==
    /\ blocks \in {<<b>> : b \in EpochSweep \cup ElementSweep}
    /\ shape = 3
    /\ caller = "main"
    /\ pc = "parse"
    /\ tle_sets = <<BlockLines(blocks[1], 3)>>
    /\ i = 1
    /\ data = <<>>
    /\ src = <<>>
    /\ df = NoFrame
    /\ j = 1
    /\ positions = <<>>
    /\ velocities = <<>>
    /\ targets = <<>>
    /\ sat_error = <<>>
    /\ exc = NoException

NextRecord == ParseBlock \/ BuildFrame

SpecRecord == InitRecord /\ [][NextRecord]_vars

(***************************************************************************)
(* The claims.                                                             *)
(***************************************************************************)
\* tle_to_dataframe has returned a table / has been ended by an exception.
Returned == df # NoFrame

Aborted == pc = "raised" /\ exc.where = "tle_to_dataframe"

RowsFrom(k) == {r \in 1..Len(df) : src[r] = k}

\* C1: a block that fails parsing or derivation does not abort the run: once
\* tle_to_dataframe has ended on a sequence of name/line1/line2 blocks, every
\* well-formed block of the input has exactly one row in the returned table.
C1_BadBlockOnlyDropped ==
    (shape = 3 /\ (Returned \/ Aborted)) =>
        \A k \in 1..Len(blocks) :
            WellFormed(blocks[k]) => Cardinality(RowsFrom(k)) = 1

KeyOf(row) == <<row.catalog_number, row.epoch>>

\* C2: the returned table holds no two rows with the same
\* (catalog_number, epoch), and the row kept for a key comes from the first
\* block of the input that has that key.
C2_NoDuplicateKeys ==
    Returned =>
        /\ \A a, b \in 1..Len(df) : a # b => KeyOf(df[a]) # KeyOf(df[b])
        /\ \A a \in 1..Len(df) : \A k \in 1..(src[a] - 1) :
               tle_row(tle_sets[k]).exc = ""
                   => KeyOf(tle_row(tle_sets[k]).row) # KeyOf(df[a])

\* add_state_vectors has ended (returned or raised) after trying to
\* propagate, and the propagation of some row failed.
PropagationFailed ==
    \/ pc = "done" /\ \E k \in 1..Len(sat_error) : sat_error[k] # "ok"
    \/ /\ pc = "raised"
       /\ exc = [kind |-> "ValueError", where |-> "add_state_vectors"]

\* C3: when the propagation of a row fails, add_state_vectors still returns
\* every row of its input, the failed row carries a propagation status that
\* marks the failure, and every other row has its state vector.
C3_FailedRowKeptAndMarked ==
    PropagationFailed =>
        /\ pc = "done"
        /\ Len(df) = Len(data)
        /\ \A k \in 1..Len(df) :
              IF sat_error[k] = "ok"
              THEN df[k].position_x # "None"
              ELSE /\ "propagation_status" \in DOMAIN df[k]
                   /\ df[k].propagation_status = sat_error[k]

\* Section 4.1's input constraint on the two element lines.
ValidLayout(line1, line2) ==
    /\ Len(line1) >= 69
    /\ Len(line2) >= 69
    /\ line1[1] = "1"
    /\ line2[1] = "2"
    /\ Slice(line1, 2, 7) = Slice(line2, 2, 7)

\* C4: the parser produces a record only from a block whose two lines are
\* each at least 69 characters long, start with '1' and '2' and carry the
\* same catalog number in columns 3-7 (a short line or a catalog mismatch is
\* an error and yields no record), in tle_to_dataframe and in parse_tle.
C4_RecordOnlyFromValidLayout ==
    /\ \A r \in 1..Len(data) :
           ValidLayout(tle_sets[src[r]][2], tle_sets[src[r]][3])
    /\ \A k \in 1..Len(tle_sets) :
           (Len(tle_sets[k]) = 3
            /\ parse_tle(tle_sets[k][2], tle_sets[k][3]).exc = "")
               => ValidLayout(tle_sets[k][2], tle_sets[k][3])

\* C5: the derived-element step never emits a row with derived values for a
\* record whose mean motion is <= 0.
C5_NoRowForNonPositiveMeanMotion ==
    \A r \in 1..Len(data) : IsPositive(data[r].mean_motion)

AllWellFormed == \A k \in 1..Len(blocks) : WellFormed(blocks[k])

ReadFromBlock(row, b) ==
    /\ row.name = (IF shape = 3 THEN Strip(b.name) ELSE <<>>)
    /\ row.catalog_number = b.cat
    /\ EccOf(row.eccentricity) = b.ecc
    /\ ~row.mean_motion.neg
    /\ row.mean_motion.ip = b.mm_ip
    /\ FracUnits(row.mean_motion, 8) = b.mm_frac

\* C6: for a response made of well-formed 2-line blocks or of well-formed
\* 3-line blocks, grouping and tle_to_dataframe yield as many records as
\* there are blocks, each read from its own block's line1 and line2, with an
\* empty name when there is no name line.
C6_BothBlockShapesAccepted ==
    (AllWellFormed /\ (Returned \/ Aborted)) =>
        /\ Returned
        /\ Len(df) = Len(blocks)
        /\ \A k \in 1..Len(df) : ReadFromBlock(df[k], blocks[k])

\* The pivot rule as section 4.2 states it.
PivotYear(yy) == IF yy < 57 THEN 2000 + yy ELSE 1900 + yy

\* Days from 1900-01-01 to a date of 1901..2099, where every fourth year is
\* a leap year.
DaysBeforeMonth == <<0, 31, 59, 90, 120, 151, 181, 212, 243, 273, 304, 334>>

DayNumber(y, m, d) ==
    (y - 1900) * 365 + (y - 1901) \div 4
    + DaysBeforeMonth[m] + (IF y % 4 = 0 /\ m > 2 THEN 1 ELSE 0) + (d - 1)

SecondOfDay(e) == e.hour * 3600 + e.minute * 60 + e.second

\* e is January 1 00:00:00 of year y plus (doy + frac * 10^-8 - 1) days.  A
\* day is 86400 * 10^6 microseconds, so frac * 864 microseconds are the time
\* of day: with s seconds and u microseconds, frac * 864 = s * 10^6 + u,
\* and 10^6 = 1157 * 864 + 352.
IsJanuaryFirstPlus(e, y, doy, frac) ==
    /\ DayNumber(e.year, e.month, e.day) - DayNumber(y, 1, 1) = doy - 1
    /\ e.hour \in 0..23 /\ e.minute \in 0..59 /\ e.second \in 0..59
    /\ e.microsecond \in 0..999999
    /\ (352 * SecondOfDay(e) + e.microsecond) % 864 = 0
    /\ 1157 * SecondOfDay(e) + (352 * SecondOfDay(e) + e.microsecond) \div 864
           = frac

\* C7: for every two-digit year yy in 0..99 the epoch of the row is January 1
\* 00:00:00 of the year 2000 + yy (yy < 57) or 1900 + yy (otherwise), a year
\* in 1957..2056, plus (day_of_year - 1) days.
C7_EpochPivotAndDayOfYear ==
    \A r \in 1..Len(data) :
        LET b == blocks[src[r]]
        IN  /\ PivotYear(b.yy) \in 1957..2056
            /\ IsJanuaryFirstPlus(data[r].epoch, PivotYear(b.yy), b.doy, b.frac)

C7_Witness ==
    /\ Len(data) = 1
    /\ blocks[1].yy = 57
    /\ blocks[1].doy = 264
    /\ data[1].epoch = [year |-> 1957, month |-> 9, day |-> 21, hour |-> 12,
                        minute |-> 25, second |-> 40, microsecond |-> 104192]

\* C8: every row tle_to_dataframe emits for a positive mean motion has
\* perigee <= apogee, whatever seven digits the eccentricity field holds.
C8_PerigeeAtMostApogee ==
    \A r \in 1..Len(data) :
        IsPositive(data[r].mean_motion) => data[r].perigee <= data[r].apogee

C8_Witness ==
    /\ Len(data) = 1
    /\ IsPositive(data[1].mean_motion)
    /\ EccOf(data[1].eccentricity) = 9999999
    /\ data[1].perigee < data[1].apogee

\* C9: every record tle_to_dataframe produces carries the two raw element
\* lines it was parsed from, so that add_state_vectors, called on that table
\* as main() does, finds both lines and reaches the propagation step.
C9_RowsCarryRawLines ==
    (caller = "main" /\ Returned) =>
        /\ \A r \in 1..Len(df) :
               /\ "line1" \in DOMAIN df[r]
               /\ "line2" \in DOMAIN df[r]
               /\ df[r].line1 = tle_sets[src[r]][2]
               /\ df[r].line2 = tle_sets[src[r]][3]
        /\ exc.kind # "KeyError"

\* The instant the propagator is asked for: whole seconds, nothing below.
Instant(t) ==
    [year |-> t.year, month |-> t.month, day |-> t.day, hour |-> t.hour,
     minute |-> t.minute, second |-> t.second, microsecond |-> 0]

\* C10: the time add_state_vectors propagates a row to is exactly the row's
\* own epoch, its sub-second part included.
C10_PropagatesToOwnEpoch ==
    \A k \in 1..Len(targets) : Instant(targets[k]) = df[k].epoch

====
